---- MODULE Spec2Model ----
(***************************************************************************)
(* pc.SpriteAnimationClip (src/framework/components/sprite/                *)
(* sprite-animation-clip.js): the playback state machine of one clip, its  *)
(* frame/time derivation and its sprite-asset binding protocol, together   *)
(* with the collaborators the clip talks to: the owning component          *)
(* (currentClip, speed, _showFrame, fire) and the asset registry           *)
(* (get, load, add:<id>, load:<id>, and load/change/remove on an asset).   *)
(*                                                                         *)
(* Time is counted in ticks of 1/TicksPerSecond seconds.  The frame rates  *)
(* considered divide TicksPerSecond, so every quotient the code computes   *)
(* is exact here exactly when it is exact in IEEE doubles.  The two        *)
(* non-finite doubles the code can produce are kept as values: Infinity    *)
(* and NaN.                                                                *)
(***************************************************************************)
EXTENDS Integers, Sequences, FiniteSets, TLC

\* ---------------------------------------------------------------- bounds
MaxFrames == 2      \* a sprite resource has 0..MaxFrames frames
MaxDt == 3          \* advance(dt): dt * speed is 0..MaxDt ticks
MaxHost == 3        \* values the host assigns to frame and time go up to this

\* ------------------------------------------------------- JS number values
Infinity == 1000000
NaN == -1000000

\* data.fps || 0: the frame rates considered
FpsValues == {0, 1, 2}

\* the least common multiple of the non-zero frame rates
TicksPerSecond ==
    LET Common(t) == \A f \in FpsValues \ {0} : t % f = 0
    IN  CHOOSE t \in 1..4 : Common(t) /\ \A u \in 1..(t - 1) : ~Common(u)

Assets == {"A", "B"}
Atlases == {"T1", "T2"}
NoAsset == "null"
NoSprite == "null"

IsFinite(x) == x # NaN /\ x # Infinity

\* JS relational operators: every comparison with NaN is false
JsGt(a, b) == a # NaN /\ b # NaN /\ a > b
JsGe(a, b) == a # NaN /\ b # NaN /\ a >= b
JsLe(a, b) == a # NaN /\ b # NaN /\ a =< b
JsLt(a, b) == a # NaN /\ b # NaN /\ a < b

\* a + b for b finite and >= 0
JsAdd(a, b) == IF IsFinite(a) THEN a + b ELSE a

\* a % b for a >= 0, b >= 0
JsMod(a, b) ==
    IF a = NaN \/ b = NaN \/ a = Infinity \/ b = 0 THEN NaN
    ELSE IF b = Infinity THEN a
    ELSE a % b

\* JS truthiness of a number
Truthy(x) == x # 0 /\ x # NaN

\* pc.math.clamp(value, min, max)
clamp(value, min, max) ==
    IF JsGe(value, max) THEN max
    ELSE IF JsLe(value, min) THEN min
    ELSE value

\* frame / (this.fps || Number.MIN_VALUE), in ticks; frame >= 0 or NaN
FrameOverFps(f, fps) ==
    IF f = NaN THEN NaN
    ELSE IF f = Infinity THEN Infinity
    ELSE IF fps = 0 THEN (IF f = 0 THEN 0 ELSE Infinity)
    ELSE (f * TicksPerSecond) \div fps

\* Math.floor(frames.length * time / duration)
FloorFrame(n, t, d) ==
    IF t = NaN \/ d = NaN THEN NaN
    ELSE IF t = Infinity
         THEN (IF n = 0 \/ d = Infinity THEN NaN ELSE Infinity)
    ELSE IF d = Infinity THEN 0
    ELSE IF d = 0
         THEN (IF n * t = 0 THEN NaN ELSE Infinity)
    ELSE (n * t) \div d

\* ------------------------------------------------------------------ state
VARIABLES
    clip,         \* the SpriteAnimationClip object, with what its last call did
    current,      \* this._component.currentClip === this
    op,           \* the last operation that ran: [name, n, a]
    registered,   \* the asset ids assets.get(id) finds
    loaded,       \* the sprite assets whose asset.resource is set
    atlasLoaded,  \* the atlas assets that are loaded (resource.atlas is resolved)
    frames,       \* asset id -> resource.frames.length
    atlasOf,      \* asset id -> asset.data.textureAtlasAsset
    stale         \* history: the assets spriteAsset was changed away from, to another
                  \* asset, before their load completed (and not bound again since)

vars == <<clip, current, op, registered, loaded, atlasLoaded, frames, atlasOf, stale>>
env == <<registered, loaded, atlasLoaded, frames, atlasOf>>

\* asset.resource.atlas is resolved, given the loaded atlas assets atl
HasAtlas(a, atl) == atlasOf[a] \in atl

\* the clip as a call finds it: nothing fired, shown, assigned or thrown yet
Begin(c) == [c EXCEPT !.fired = <<>>, !.shown = <<>>, !.assigned = <<>>,
                      !.loadCalls = <<>>, !.threw = FALSE]

\* this.fire(ev); this._component.fire(ev, this)
Fire(c, ev) == [c EXCEPT !.fired = c.fired \o <<ev, "component." \o ev>>]

\* ------------------------------------------------ frame/time derivation
\* duration getter
duration(c) ==
    IF c.sprite # NoSprite
    THEN FrameOverFps(frames[c.sprite], c.fps)
    ELSE 0

\* _showFrame called without the active-clip test
ShowFrameUnguarded(c, value) == [c EXCEPT !.shown = Append(c.shown, value)]

\* this._component._showFrame(value), guarded by the active-clip test
ShowFrame(c, value) ==
    IF current THEN [c EXCEPT !.shown = Append(c.shown, value)] ELSE c

\* frame setter
SetFrame(c, value) ==
    LET c1 == IF c.sprite # NoSprite
              THEN LET f == clamp(value, 0, frames[c.sprite])
                   IN  [c EXCEPT !.frame = f,
                                 !.time = clamp(FrameOverFps(f, c.fps), 0, duration(c))]
              ELSE [c EXCEPT !.frame = value, !.time = 0]
    IN  ShowFrame(c1, value)

\* the wrap or clamp both _update and the time setter apply to a time past the end
PastEnd(c, t, d) == IF c.loop THEN JsMod(t, d) ELSE d

\* Math.floor(frames.length * time / duration), or 0 without a sprite
FrameAt(c, t, d) ==
    IF c.sprite # NoSprite THEN FloorFrame(frames[c.sprite], t, d) ELSE 0

\* time setter
SetTime(c, value) ==
    LET d  == duration(c)
        t  == IF JsLt(value, 0) THEN 0
              ELSE IF JsGt(value, d) THEN PastEnd(c, value, d)
              ELSE value
        c1 == [c EXCEPT !.time = t]
    IN  SetFrame(c1, FrameAt(c1, t, d))

\* sprite setter
SetSprite(c, value, atl) ==
    LET c1 == [c EXCEPT !.sprite = value, !.assigned = Append(c.assigned, value)]
    IN  IF current
        THEN IF value = NoSprite \/ ~HasAtlas(value, atl)
             THEN c1
             ELSE IF Truthy(c1.time)
                  THEN SetTime(c1, c1.time)
                  ELSE SetFrame(c1, c1.frame)
        ELSE c1

\* ------------------------------------------------------------- playback
\* _update that fires end without leaving the Playing state
UpdateKeepsPlaying(c, step) ==
    IF c.fps = 0 THEN c
    ELSE IF ~c.playing \/ c.paused THEN c
    ELSE
      LET t0  == JsAdd(c.time, step)
          d   == duration(c)
          end == JsGt(t0, d)
          t1  == IF end THEN PastEnd(c, t0, d) ELSE t0
          c1  == [c EXCEPT !.time = t1]
          f   == FrameAt(c1, t1, d)
          c2  == IF f # c1.frame \/ f = NaN THEN SetFrame(c1, f) ELSE c1
      IN  IF end THEN Fire(c2, IF c.loop THEN "loop" ELSE "end") ELSE c2

\* _update that advances a paused clip
UpdateIgnoresPause(c, step) ==
    IF c.fps = 0 THEN c
    ELSE IF ~c.playing THEN c
    ELSE
      LET t0  == JsAdd(c.time, step)
          d   == duration(c)
          end == JsGt(t0, d)
          t1  == IF end THEN PastEnd(c, t0, d) ELSE t0
          c1  == [c EXCEPT !.time = t1]
          f   == FrameAt(c1, t1, d)
          c2  == IF f # c1.frame \/ f = NaN THEN SetFrame(c1, f) ELSE c1
      IN  IF end
          THEN IF c.loop
               THEN Fire(c2, "loop")
               ELSE Fire([c2 EXCEPT !.playing = FALSE, !.paused = FALSE], "end")
          ELSE c2

\* _update(dt), with step = dt * this._component.speed
Update(c, step) ==
    IF c.fps = 0 THEN c
    ELSE IF ~c.playing \/ c.paused THEN c
    ELSE
      LET t0  == JsAdd(c.time, step)
          d   == duration(c)
          end == JsGt(t0, d)
          t1  == IF end THEN PastEnd(c, t0, d) ELSE t0
          c1  == [c EXCEPT !.time = t1]
          f   == FrameAt(c1, t1, d)
          c2  == IF f # c1.frame \/ f = NaN THEN SetFrame(c1, f) ELSE c1
      IN  IF end
          THEN IF c.loop
               THEN Fire(c2, "loop")
               ELSE Fire([c2 EXCEPT !.playing = FALSE, !.paused = FALSE], "end")
          ELSE c2

\* play() that restarts a paused clip
playRestartsPaused(c) ==
    IF c.playing /\ ~c.paused THEN c
    ELSE Fire(SetFrame([c EXCEPT !.playing = TRUE, !.paused = FALSE], 0), "play")

\* play() without the test that the clip is already playing
playAlwaysRestarts(c) ==
    Fire(SetFrame([c EXCEPT !.playing = TRUE, !.paused = FALSE], 0), "play")

play(c) ==
    IF c.playing THEN c
    ELSE Fire(SetFrame([c EXCEPT !.playing = TRUE, !.paused = FALSE], 0), "play")

\* pause() without the test that the clip is playing
pauseUnguarded(c) == Fire([c EXCEPT !.paused = TRUE], "pause")

pause(c) ==
    IF ~c.playing \/ c.paused THEN c
    ELSE Fire([c EXCEPT !.paused = TRUE], "pause")

\* resume() without the test that the clip is paused
resumeUnguarded(c) == Fire([c EXCEPT !.paused = FALSE], "resume")

resume(c) ==
    IF ~c.paused THEN c
    ELSE Fire([c EXCEPT !.paused = FALSE], "resume")

\* stop() that leaves the paused flag as it is
stopKeepsPaused(c) ==
    IF ~c.playing THEN c
    ELSE Fire(SetFrame([c EXCEPT !.playing = FALSE, !.time = 0], 0), "stop")

stop(c) ==
    IF ~c.playing THEN c
    ELSE Fire(SetFrame([c EXCEPT !.playing = FALSE, !.paused = FALSE, !.time = 0], 0),
              "stop")

\* _onSpriteMeshesChange
OnSpriteMeshesChange(c) == ShowFrame(c, c.frame)

\* -------------------------------------------------------- asset binding
\* _onSpriteAssetLoad(asset), given the loaded assets ld and loaded atlases atl;
\* the off/once pair leaves one load:<atlas id> subscription
OnSpriteAssetLoad(c, a, ld, atl) ==
    IF a \notin ld THEN SetSprite(c, NoSprite, atl)
    ELSE IF ~HasAtlas(a, atl)
         THEN [c EXCEPT !.onAtlas = (c.onAtlas \ {atlasOf[a]}) \cup {atlasOf[a]}]
         ELSE SetSprite(c, a, atl)

\* _onTextureAtlasLoad: assets.get(this._spriteAsset) is undefined for an unset or
\* unregistered id, and reading .resource of it throws
OnTextureAtlasLoad(c, ld, atl) ==
    IF c.spriteAsset = NoAsset \/ c.spriteAsset \notin registered
    THEN [c EXCEPT !.threw = TRUE]
    ELSE OnSpriteAssetLoad(c, c.spriteAsset, ld, atl)

\* _onSpriteAssetChange
OnSpriteAssetChange(c, a, ld, atl) == OnSpriteAssetLoad(c, a, ld, atl)

\* _bindSpriteAsset
BindSpriteAsset(c, a, ld, atl) ==
    LET c1 == [c EXCEPT !.onAsset = c.onAsset \cup {a}]
    IN  IF a \in ld
        THEN OnSpriteAssetLoad(c1, a, ld, atl)
        ELSE [c1 EXCEPT !.loadCalls = Append(c1.loadCalls, a)]

\* _onSpriteAssetAdded
OnSpriteAssetAdded(c, a, ld, atl) ==
    LET c1 == [c EXCEPT !.onAdd = c.onAdd \ {a}]
    IN  IF c1.spriteAsset = a THEN BindSpriteAsset(c1, a, ld, atl) ELSE c1

\* the listeners the spriteAsset setter takes off the previous asset
CleanOld(c) ==
    IF c.spriteAsset # NoAsset /\ c.spriteAsset \in registered
    THEN [c EXCEPT !.onAsset = c.onAsset \ {c.spriteAsset}]
    ELSE c

\* spriteAsset setter
SetSpriteAsset(c, id) ==
    IF c.spriteAsset = id THEN c
    ELSE LET c1 == [CleanOld(c) EXCEPT !.spriteAsset = id]
         IN  IF id # NoAsset
             THEN IF id \notin registered
                  THEN [SetSprite(c1, NoSprite, atlasLoaded)
                            EXCEPT !.onAdd = c1.onAdd \cup {id}]
                  ELSE BindSpriteAsset(c1, id, loaded, atlasLoaded)
             ELSE SetSprite(c1, NoSprite, atlasLoaded)

\* ---------------------------------------------------------------- Init
\* new SpriteAnimationClip(component, data) with data.spriteAsset unset
NewClip(fps, loop) ==
    [ frame |-> 0, sprite |-> NoSprite, spriteAsset |-> NoAsset,
      fps |-> fps, loop |-> loop, playing |-> FALSE, paused |-> FALSE, time |-> 0,
      onAsset |-> {}, onAdd |-> {}, onAtlas |-> {},
      fired |-> <<>>, shown |-> <<>>, assigned |-> <<NoSprite>>,
      loadCalls |-> <<>>, threw |-> FALSE ]

Op(name, n, a) == [name |-> name, n |-> n, a |-> a]

\* The environment a clip is constructed in.  Playback is studied with both sprite
\* resources loaded, so that the host and the asset callbacks can hand either to the
\* sprite setter; each resource has its atlas or not, and 0..MaxFrames frames.
InitPlay ==
    /\ \E fps \in FpsValues, loop \in BOOLEAN : clip = NewClip(fps, loop)
    /\ current = FALSE
    /\ op = Op("new", 0, NoAsset)
    /\ registered = Assets
    /\ loaded = Assets
    /\ atlasLoaded \in SUBSET Atlases
    /\ frames \in [Assets -> 0..MaxFrames]
    /\ atlasOf = [a \in Assets |-> IF a = "A" THEN "T1" ELSE "T2"]
    /\ stale = {}

\* Binding is studied from a registry holding any of the assets, none loaded yet,
\* the two sprite assets sharing an atlas or not.
InitBind ==
    /\ \E fps \in FpsValues : clip = NewClip(fps, FALSE)
    /\ current = FALSE
    /\ op = Op("new", 0, NoAsset)
    /\ registered \in SUBSET Assets
    /\ loaded = {}
    /\ atlasLoaded = {}
    /\ frames = [a \in Assets |-> IF a = "A" THEN MaxFrames ELSE 1]
    /\ atlasOf \in [Assets -> Atlases]
    /\ stale = {}

\* new SpriteAnimationClip(component, data) with data.spriteAsset = "A", a registered
\* and loaded sprite asset whose atlas is resolved: the constructor's assignment of
\* spriteAsset binds the asset and, the clip not being current yet, sets sprite.
InitRun ==
    /\ current = FALSE
    /\ op = Op("new", 0, "A")
    /\ registered = Assets
    /\ loaded = Assets
    /\ atlasLoaded = Atlases
    /\ \E n \in 0..MaxFrames : frames = [a \in Assets |-> n]
    /\ atlasOf = [a \in Assets |-> IF a = "A" THEN "T1" ELSE "T2"]
    /\ stale = {}
    /\ \E fps \in FpsValues, loop \in BOOLEAN :
           clip = SetSpriteAsset(NewClip(fps, loop), "A")

\* -------------------------------------------------------------- actions
Play ==
    /\ clip' = play(Begin(clip))
    /\ op' = Op("play", 0, NoAsset)
    /\ UNCHANGED <<current, stale, env>>

Pause ==
    /\ clip' = pause(Begin(clip))
    /\ op' = Op("pause", 0, NoAsset)
    /\ UNCHANGED <<current, stale, env>>

Resume ==
    /\ clip' = resume(Begin(clip))
    /\ op' = Op("resume", 0, NoAsset)
    /\ UNCHANGED <<current, stale, env>>

Stop ==
    /\ clip' = stop(Begin(clip))
    /\ op' = Op("stop", 0, NoAsset)
    /\ UNCHANGED <<current, stale, env>>

\* the component's update calls clip._update(dt); step is dt * speed in ticks
Advance ==
    \E step \in 0..MaxDt :
        /\ clip' = Update(Begin(clip), step)
        /\ op' = Op("advance", step, NoAsset)
        /\ UNCHANGED <<current, stale, env>>

\* clip.frame = v
AssignFrame ==
    \E v \in -1..MaxHost :
        /\ clip' = SetFrame(Begin(clip), v)
        /\ op' = Op("frame", v, NoAsset)
        /\ UNCHANGED <<current, stale, env>>

\* clip.time = v, v a number of the host's or the time it has just read off the clip
AssignTime ==
    \E v \in (-1..MaxHost) \cup {clip.time} :
        /\ clip' = SetTime(Begin(clip), v)
        /\ op' = Op("time", v, NoAsset)
        /\ UNCHANGED <<current, stale, env>>

\* clip.sprite = v, v a loaded sprite resource or null
AssignSprite ==
    \E v \in loaded \cup {NoSprite} :
        /\ clip' = SetSprite(Begin(clip), v, atlasLoaded)
        /\ op' = Op("sprite", 0, v)
        /\ UNCHANGED <<current, stale, env>>

\* clip.spriteAsset = id
AssignSpriteAsset ==
    \E id \in Assets \cup {NoAsset} :
        /\ clip' = SetSpriteAsset(Begin(clip), id)
        /\ op' = Op("spriteAsset", 0, id)
        /\ stale' = IF id = clip.spriteAsset THEN stale
                    ELSE (stale \ {id}) \cup
                         (IF id \in Assets /\ clip.spriteAsset \in Assets \ loaded
                          THEN {clip.spriteAsset} ELSE {})
        /\ UNCHANGED <<current, env>>

\* the bound sprite fires set:meshes
SpriteMeshesChange ==
    /\ clip.sprite # NoSprite
    /\ clip' = OnSpriteMeshesChange(Begin(clip))
    /\ op' = Op("meshes", 0, clip.sprite)
    /\ UNCHANGED <<current, stale, env>>

\* the component makes this clip, or another one, its current clip
SwitchCurrentClip ==
    /\ current' = ~current
    /\ clip' = Begin(clip)
    /\ op' = Op("switch", 0, NoAsset)
    /\ UNCHANGED <<stale, env>>

\* assets.add(asset) fires add:<id>
RegistryAdd ==
    \E a \in Assets \ registered :
        /\ registered' = registered \cup {a}
        /\ clip' = IF a \in clip.onAdd
                   THEN OnSpriteAssetAdded(Begin(clip), a, loaded, atlasLoaded)
                   ELSE Begin(clip)
        /\ op' = Op("add", 0, a)
        /\ UNCHANGED <<current, stale, loaded, atlasLoaded, frames, atlasOf>>

\* assets.remove(asset) fires remove on the asset: _onSpriteAssetRemove does nothing
RegistryRemove ==
    \E a \in registered :
        /\ registered' = registered \ {a}
        /\ clip' = Begin(clip)
        /\ op' = Op("remove", 0, a)
        /\ UNCHANGED <<current, stale, loaded, atlasLoaded, frames, atlasOf>>

\* a sprite asset finishes loading: asset.resource is set, load fires on the asset
AssetLoad ==
    \E a \in Assets \ loaded :
        /\ loaded' = loaded \cup {a}
        /\ clip' = IF a \in clip.onAsset
                   THEN OnSpriteAssetLoad(Begin(clip), a, loaded', atlasLoaded)
                   ELSE Begin(clip)
        /\ op' = Op("load", 0, a)
        /\ UNCHANGED <<current, stale, registered, atlasLoaded, frames, atlasOf>>

\* a sprite asset fires change
AssetChange ==
    \E a \in Assets :
        /\ clip' = IF a \in clip.onAsset
                   THEN OnSpriteAssetChange(Begin(clip), a, loaded, atlasLoaded)
                   ELSE Begin(clip)
        /\ op' = Op("change", 0, a)
        /\ UNCHANGED <<current, stale, env>>

\* an atlas asset finishes loading: load:<id> fires on the registry, once
AtlasLoad ==
    \E t \in Atlases \ atlasLoaded :
        /\ atlasLoaded' = atlasLoaded \cup {t}
        /\ clip' = IF t \in clip.onAtlas
                   THEN OnTextureAtlasLoad([Begin(clip) EXCEPT !.onAtlas = clip.onAtlas \ {t}],
                                           loaded, atlasLoaded')
                   ELSE Begin(clip)
        /\ op' = Op("atlas", 0, t)
        /\ UNCHANGED <<current, stale, registered, loaded, frames, atlasOf>>

NextPlay ==
    \/ Play \/ Pause \/ Resume \/ Stop \/ Advance
    \/ AssignFrame \/ AssignTime \/ AssignSprite
    \/ SpriteMeshesChange \/ SwitchCurrentClip

NextBind ==
    \/ AssignSpriteAsset \/ SwitchCurrentClip
    \/ RegistryAdd \/ RegistryRemove \/ AssetLoad \/ AssetChange \/ AtlasLoad

NextRun ==
    \/ Play \/ Pause \/ Resume \/ Stop \/ Advance \/ SwitchCurrentClip

\* playback, frame/time derivation and the renderer
SpecPlay == InitPlay /\ [][NextPlay]_vars

\* the asset binding protocol
SpecBind == InitBind /\ [][NextBind]_vars

\* a clip constructed on a loaded sprite asset and then only played:
\* play, pause, resume, stop and the component's update
SpecRun == InitRun /\ [][NextRun]_vars

\* ============================================================ properties
Range(seq) == {seq[i] : i \in 1..Len(seq)}
Count(seq, x) == Cardinality({i \in 1..Len(seq) : seq[i] = x})

\* the call left the clip as it found it: no field changed, nothing fired or shown
NoOp == clip' = Begin(clip)

\* the clip moved to Playing from frame 0 and play was fired once on the clip and
\* once on the component
Started ==
    /\ clip'.playing /\ ~clip'.paused /\ clip'.frame = 0
    /\ clip'.fired = <<"play", "component.play">>

\* C1, as stated: play() does nothing only on a clip that is Playing and not paused;
\* in every other state (Stopped, Paused) it leaves the clip Playing, at frame 0,
\* with one play event.
C1_PlayFromAnyState ==
    [][op'.name = "play" => IF clip.playing /\ ~clip.paused THEN NoOp ELSE Started]_vars

\* C1, as amended: play() on a Stopped clip leaves it Playing, at frame 0, with one
\* play event; play() does nothing whenever the playing flag is set, that is on a
\* Playing clip and on a Paused one, which stays Paused.
C1_PlayFromStopped ==
    [][op'.name = "play" => IF clip.playing THEN NoOp ELSE Started]_vars

\* play() was called on a Paused clip, which is still Paused
C1_Witness == op.name = "play" /\ clip.playing /\ clip.paused /\ clip.fired = <<>>

\* a callback that originates from asset a: a added to the registry, a's load,
\* a's change, or the load of a's texture atlas
CallbackFrom(a) ==
    \/ op.name \in {"add", "load", "change"} /\ op.a = a
    \/ op.name = "atlas" /\ op.a = atlasOf[a]

\* C2: once spriteAsset was changed from A to another asset before A's load
\* completed, no callback originating from A assigns sprite from A's resource.
C2_StaleCallbackRejected ==
    \A a \in stale :
        (clip.spriteAsset # a /\ CallbackFrom(a)) => a \notin Range(clip.assigned)

\* C3: a clip with a sprite, fps > 0, not looping, that is only played: an advance in
\* the Playing state leaves time not above duration and frame not below what it was,
\* fires end (once) exactly when the time it adds up exceeds duration, and then
\* leaves the Playing state; an advance outside the Playing state, so every advance
\* after the end, changes and fires nothing.  With at least one frame, time and frame
\* stay finite numbers.
C3_NonLoopingRun ==
    [][(op'.name = "advance" /\ ~clip.loop /\ clip.fps > 0 /\ clip.sprite # NoSprite) =>
        IF clip.playing /\ ~clip.paused
        THEN /\ ~JsGt(clip'.time, duration(clip'))
             /\ ~JsLt(clip'.frame, clip.frame)
             /\ (frames[clip.sprite] >= 1 =>
                    /\ IsFinite(clip'.time) /\ clip'.time >= 0
                    /\ IsFinite(clip'.frame))
             /\ Count(clip'.fired, "end") =
                    (IF JsGt(JsAdd(clip.time, op'.n), duration(clip)) THEN 1 ELSE 0)
             /\ Count(clip'.fired, "loop") = 0
             /\ clip'.playing = (Count(clip'.fired, "end") = 0)
             /\ ~clip'.paused
        ELSE NoOp]_vars

\* a non-looping clip has just been advanced past its end
C3_Witness ==
    /\ op.name = "advance" /\ "end" \in Range(clip.fired)
    /\ ~clip.loop /\ ~clip.playing
    /\ frames[clip.sprite] >= 1 /\ clip.time = duration(clip) /\ clip.frame > 0

\* C4: after an advance of a looping, Playing clip with a sprite and duration > 0,
\* 0 <= time < duration, and loop was fired once if the advance wrapped time and
\* not at all otherwise.
C4_LoopTimeBelowDuration ==
    [][(/\ op'.name = "advance" /\ clip.loop /\ clip.playing /\ ~clip.paused
        /\ clip.fps > 0 /\ clip.sprite # NoSprite /\ frames[clip.sprite] >= 1) =>
        /\ JsGe(clip'.time, 0) /\ JsLt(clip'.time, duration(clip'))
        /\ Count(clip'.fired, "loop") =
               (IF JsGt(JsAdd(clip.time, op'.n), duration(clip)) THEN 1 ELSE 0)]_vars

\* C5: an advance that takes a non-looping Playing clip with n >= 1 frames past its
\* end (it fired end) leaves time = duration, frame = n - 1, playing = paused = false,
\* and fired end once.
C5_EndsOnLastFrame ==
    (/\ op.name = "advance" /\ "end" \in Range(clip.fired)
     /\ clip.sprite # NoSprite /\ frames[clip.sprite] >= 1) =>
        /\ clip.time = duration(clip)
        /\ clip.frame = frames[clip.sprite] - 1
        /\ ~clip.playing /\ ~clip.paused
        /\ Count(clip.fired, "end") = 1

\* C6: an advance of a clip without a sprite (duration 0), whatever its fps, leaves
\* time a finite number, changes neither time nor frame and fires no loop or end.
C6_ZeroDurationAdvance ==
    [][(op'.name = "advance" /\ clip.sprite = NoSprite) =>
        /\ IsFinite(clip'.time)
        /\ clip'.time = clip.time /\ clip'.frame = clip.frame
        /\ clip'.fired = <<>>]_vars

\* C7: a clip with no sprite has frame = 0 and time = 0.
C7_NoSpriteAtZero == clip.sprite = NoSprite => (clip.frame = 0 /\ clip.time = 0)

\* C8: 0 <= time <= duration (stated of the finite values of time).
C8_TimeWithinDuration ==
    IsFinite(clip.time) => (clip.time >= 0 /\ JsLe(clip.time, duration(clip)))

\* C9: with a sprite of at least one frame and fps > 0, frame is
\* floor(frameCount * time / duration).
C9_FrameDerivedFromTime ==
    (clip.sprite # NoSprite /\ clip.fps > 0 /\ frames[clip.sprite] >= 1) =>
        clip.frame = FloorFrame(frames[clip.sprite], clip.time, duration(clip))

\* C10: _showFrame is called only while the clip is the component's current clip;
\* a clip that is not current still takes the frame and the time it is assigned
\* and still advances.
C10_OnlyCurrentClipShows ==
    [][/\ clip'.shown # <<>> => (current /\ current')
       /\ (~current /\ clip.sprite # NoSprite /\ clip.fps > 0) =>
            /\ (op'.name = "frame" /\ op'.n \in 0..frames[clip.sprite]) =>
                   (clip'.frame = op'.n /\ clip'.shown = <<>>)
            /\ (op'.name = "time" /\ op'.n \in 0..duration(clip)) =>
                   (clip'.frame = FloorFrame(frames[clip.sprite], op'.n, duration(clip))
                    /\ clip'.shown = <<>>)
            /\ (op'.name = "advance" /\ clip.playing /\ ~clip.paused
                /\ IsFinite(clip.time) /\ clip.time + op'.n =< duration(clip)) =>
                   (clip'.frame = FloorFrame(frames[clip.sprite], clip.time + op'.n,
                                            duration(clip))
                    /\ clip'.shown = <<>>)]_vars

\* a clip that is not current was assigned a frame, took it and showed nothing
C10_Witness ==
    /\ ~current /\ op.name = "frame" /\ op.n >= 1
    /\ clip.sprite # NoSprite /\ clip.frame = op.n
    /\ clip.shown = <<>>

\* C11: stop() on a Playing or Paused clip leaves it Stopped with time = 0 and
\* frame = 0 and fires stop once, on the clip and on the component; stop() on a
\* Stopped clip, one that ended with time = duration included, changes and fires
\* nothing.
C11_Stop ==
    [][op'.name = "stop" =>
        IF clip.playing
        THEN /\ ~clip'.playing /\ ~clip'.paused
             /\ clip'.time = 0 /\ clip'.frame = 0
             /\ clip'.fired = <<"stop", "component.stop">>
        ELSE NoOp]_vars

\* a clip with a sprite was stopped
C11_Witness ==
    /\ op.name = "stop" /\ clip.fired = <<"stop", "component.stop">>
    /\ ~clip.playing /\ clip.sprite # NoSprite /\ clip.time = 0

\* C12: pause() moves a Playing clip to Paused and fires pause once, and does
\* nothing on a Stopped or Paused clip; resume() moves a Paused clip to Playing and
\* fires resume once, and does nothing on a clip that is not Paused; neither changes
\* time or frame.
C12_PauseResume ==
    [][/\ op'.name = "pause" =>
            IF clip.playing /\ ~clip.paused
            THEN /\ clip'.playing /\ clip'.paused
                 /\ clip'.fired = <<"pause", "component.pause">>
                 /\ clip'.time = clip.time /\ clip'.frame = clip.frame
            ELSE NoOp
       /\ op'.name = "resume" =>
            IF clip.paused
            THEN /\ clip'.playing /\ ~clip'.paused
                 /\ clip'.fired = <<"resume", "component.resume">>
                 /\ clip'.time = clip.time /\ clip'.frame = clip.frame
            ELSE NoOp]_vars

\* a clip paused away from its start has been resumed
C12_Witness ==
    /\ op.name = "resume" /\ clip.fired = <<"resume", "component.resume">>
    /\ clip.playing /\ ~clip.paused /\ clip.sprite # NoSprite
    /\ IsFinite(clip.time) /\ clip.time > 0

\* C13: play() on a clip that is Playing and not paused changes none of time, frame,
\* playing and paused, fires nothing and shows nothing.
C13_PlayWhilePlaying ==
    [][(op'.name = "play" /\ clip.playing /\ ~clip.paused) =>
        /\ clip'.time = clip.time /\ clip'.frame = clip.frame
        /\ clip'.playing /\ ~clip'.paused
        /\ clip'.fired = <<>> /\ clip'.shown = <<>>]_vars

\* play() was called on the current clip while it was Playing away from its start
C13_Witness ==
    /\ op.name = "play" /\ clip.fired = <<>> /\ current
    /\ clip.playing /\ ~clip.paused /\ clip.sprite # NoSprite
    /\ IsFinite(clip.time) /\ clip.time > 0 /\ clip.frame > 0

\* C14: an advance with fps = 0, or of a clip that is Stopped or Paused, changes
\* none of time, frame, playing and paused, fires nothing and shows nothing.
C14_AdvanceDisabled ==
    [][(op'.name = "advance" /\ (clip.fps = 0 \/ ~clip.playing \/ clip.paused)) =>
        /\ clip'.time = clip.time /\ clip'.frame = clip.frame
        /\ clip'.playing = clip.playing /\ clip'.paused = clip.paused
        /\ clip'.fired = <<>> /\ clip'.shown = <<>>]_vars

\* a Paused clip with a sprite and fps > 0 was advanced by a positive step
C14_Witness ==
    /\ op.name = "advance" /\ op.n > 0
    /\ clip.fps > 0 /\ clip.playing /\ clip.paused /\ clip.sprite # NoSprite
    /\ frames[clip.sprite] >= 1

\* C15: with a sprite of n >= 1 frames, assigning frame = f for f in 0..n, reading
\* time and assigning time the value read leaves frame = f.
C15_RoundTrip ==
    [][(/\ op.name = "frame" /\ clip.sprite # NoSprite /\ frames[clip.sprite] >= 1
        /\ op.n \in 0..frames[clip.sprite]
        /\ op'.name = "time" /\ op'.n = clip.time) =>
        clip'.frame = op.n]_vars

\* C16: an advance of a Playing clip with a sprite of at least one frame and fps > 0,
\* whose time plus the step does not exceed duration, leaves time equal to the
\* previous time plus the step.
C16_AdvanceAddsStep ==
    [][(/\ op'.name = "advance" /\ clip.playing /\ ~clip.paused
        /\ clip.fps > 0 /\ clip.sprite # NoSprite /\ frames[clip.sprite] >= 1
        /\ IsFinite(clip.time)
        /\ ~JsGt(JsAdd(clip.time, op'.n), duration(clip))) =>
        clip'.time = JsAdd(clip.time, op'.n)]_vars

\* C17: when frame or time is assigned on the clip that is the component's current
\* clip, every argument passed to _showFrame equals the frame stored after the
\* assignment.
C17_ShowsStoredFrame ==
    [][((op'.name = "frame" \/ op'.name = "time") /\ current) =>
        \A i \in DOMAIN clip'.shown : clip'.shown[i] = clip'.frame]_vars

\* C18: after any sequence of load and change callbacks and rebinds the clip holds at
\* most one pending subscription to a texture atlas' load event.
C18_OneAtlasSubscription == Cardinality(clip.onAtlas) <= 1

\* C19: in every reachable state a sprite that is not null is the resource of the
\* asset that spriteAsset identifies.
C19_SpriteOfSpriteAsset == clip.sprite # NoSprite => clip.sprite = clip.spriteAsset

\* C20: in every reachable state paused implies playing, so the clip is in exactly
\* one of Stopped, Playing and Paused.
C20_PausedImpliesPlaying == clip.paused => clip.playing

\* a Playing clip has just been paused: it is paused and playing
C20_Witness ==
    /\ op.name = "pause" /\ clip.fired = <<"pause", "component.pause">>
    /\ clip.paused /\ clip.playing

====
